---------------------------- MODULE Spec2Model ----------------------------
(***************************************************************************)
(* A model of santiment/san-sdk:                                           *)
(*   tools/building_derivative_metrics/change_functions.py  (the change    *)
(*     and moving-average transforms on one pandas Series / numpy array)   *)
(*   ICDM_2019/utils.py  (get_san_metric, the date-chunked fetch loop)     *)
(*                                                                         *)
(* Numbers.  A float is modelled as a pair <<n, d>>: d > 0 is the exact    *)
(* rational n/d in lowest terms, and d = 0 is a non-finite IEEE value:     *)
(* <<0,0>> is NaN, <<1,0>> is +inf, <<-1,0>> is -inf.  Arithmetic is exact *)
(* (no rounding); the IEEE outcomes of a division by zero are kept.        *)
(* Time is counted in whole hours, dates in whole days.                    *)
(***************************************************************************)
EXTENDS Integers, Sequences, FiniteSets

VARIABLES
    index,              \* the Series' index: timestamps in hours, strictly increasing
    values,             \* the Series' values, position by position
    freq,               \* index.freq in hours; 0 stands for freq = None
    call,               \* the last call of a change function: its name, arguments, locals
    start,              \* get_san_metric: start, as a day number
    end,                \* get_san_metric: end, as a day number
    iterate_over_days,  \* get_san_metric: the chunk span in days
    i,                  \* get_san_metric: the loop variable
    requests,           \* get_san_metric: the san.get calls issued so far, in order
    df,                 \* get_san_metric: the frame accumulated so far (its rows' dates)
    pc                  \* get_san_metric: "idle", "loop" or "done"

vars == <<index, values, freq, call, start, end, iterate_over_days, i, requests, df, pc>>

seriesVars == <<index, values, freq>>
fetchVars == <<start, end, iterate_over_days, i, requests, df, pc>>

-----------------------------------------------------------------------------
(* Bounds of the model. *)

MaxLen == 3             \* longest Series given to the positional change functions
MaxPeriods == 4         \* largest look-back (days / n_periods) tried
MaxObs == 3             \* longest timestamped Series
MaxTime == 4            \* latest timestamp, in hours
MaxHours == 3           \* widest moving-average window, in hours
MaxMinPeriods == 2      \* largest min_periods tried
MaxChange == 3          \* largest change_period_hours tried
MaxDate == 7            \* latest day number of start / end
MaxChunk == 3           \* largest iterate_over_days tried

-----------------------------------------------------------------------------
(* Floats. *)

NaN == <<0, 0>>
PosInf == <<1, 0>>
NegInf == <<-1, 0>>
Zero == <<0, 1>>
One == <<1, 1>>

Abs(x) == IF x < 0 THEN -x ELSE x

RECURSIVE GCD(_, _)
GCD(a, b) == IF b = 0 THEN a ELSE GCD(b, a % b)

\* n/d in lowest terms with a positive denominator (d # 0).
Norm(n, d) ==
    LET s == IF d < 0 THEN -1 ELSE 1
        g == GCD(Abs(n), Abs(d))
    IN  <<(s * n) \div g, (s * d) \div g>>

Rat(n) == <<n, 1>>

IsFinite(x) == x[2] > 0

\* x + y on floats.
Add(x, y) ==
    IF IsFinite(x) /\ IsFinite(y) THEN Norm(x[1] * y[2] + y[1] * x[2], x[2] * y[2])
    ELSE IF x = NaN \/ y = NaN THEN NaN
    ELSE IF ~IsFinite(x) /\ ~IsFinite(y) THEN (IF x = y THEN x ELSE NaN)
    ELSE IF ~IsFinite(x) THEN x ELSE y

\* x / y on floats: no exception, a zero divisor gives nan or +-inf.
Div(x, y) ==
    IF x = NaN \/ y = NaN THEN NaN
    ELSE IF ~IsFinite(x) /\ ~IsFinite(y) THEN NaN
    ELSE IF ~IsFinite(y) THEN Zero
    ELSE IF y[1] = 0 THEN
        (IF x[1] = 0 THEN NaN ELSE IF x[1] > 0 THEN PosInf ELSE NegInf)
    ELSE IF ~IsFinite(x) THEN (IF (x[1] > 0) = (y[1] > 0) THEN PosInf ELSE NegInf)
    ELSE Norm(x[1] * y[2], x[2] * y[1])

\* x - 1 on floats.
Sub1(x) == IF IsFinite(x) THEN Norm(x[1] - x[2], x[2]) ELSE x

\* pd.isna / np.isnan on one element.
isna(x) == x = NaN

\* (x == 0) on one element: False on NaN.
eq0(x) == IsFinite(x) /\ x[1] = 0

\* (x != 0) on one element: True on NaN, as every IEEE != with a NaN operand is.
ne0(x) == ~eq0(x)

-----------------------------------------------------------------------------
(* Arrays: a Series' values and a boolean mask are sequences over 1..n. *)

\* pd.Series(index=series.index, dtype=float): every position NaN.
empty_result(n) == [k \in 1..n |-> NaN]

\* result[mask] = rhs, position by position.
assign(result, mask, rhs) ==
    [k \in 1..Len(result) |-> IF mask[k] THEN rhs[k] ELSE result[k]]

\* result[mask] = scalar.
assign_scalar(result, mask, scalar) ==
    [k \in 1..Len(result) |-> IF mask[k] THEN scalar ELSE result[k]]

\* (value / old_value) - 1, position by position.
pct(value, old_value) ==
    [k \in 1..Len(value) |-> Sub1(Div(value[k], old_value[k]))]

\* Mutant of shift: series.shift(periods, fill_value=0).
shift_fill_zero(series, periods) ==
    [k \in 1..Len(series) |->
        IF k - periods >= 1 /\ k - periods <= Len(series)
        THEN series[k - periods] ELSE Zero]

\* Mutant of shift: series.shift(-periods), the value periods ahead.
shift_ahead(series, periods) ==
    [k \in 1..Len(series) |->
        IF k + periods >= 1 /\ k + periods <= Len(series)
        THEN series[k + periods] ELSE NaN]

\* series.shift(periods): positional, the vacated positions are NaN.
shift(series, periods) ==
    [k \in 1..Len(series) |->
        IF k - periods >= 1 /\ k - periods <= Len(series)
        THEN series[k - periods] ELSE NaN]


-----------------------------------------------------------------------------
(* The positional change functions.  Each returns its locals with its      *)
(* result, so that the masks it built can be inspected.                    *)

\* compute_nd_change: the masked-assignment implementation.
compute_nd_change(series, days) ==
    LET n == Len(series)
        old_value == shift(series, days)
        value == series
        result0 == empty_result(n)
        both_nan == [k \in 1..n |-> isna(value[k]) \/ isna(old_value[k])]
        result1 == assign_scalar(result0, both_nan, NaN)
        both_zero ==
            [k \in 1..n |-> eq0(old_value[k]) /\ eq0(value[k]) /\ ~both_nan[k]]
        result2 == assign_scalar(result1, both_zero, Zero)
        old_zero_new_nonzero ==
            [k \in 1..n |-> eq0(old_value[k]) /\ ne0(value[k]) /\ ~both_nan[k]]
        result3 == assign_scalar(result2, old_zero_new_nonzero, One)
        normal_case ==
            [k \in 1..n |-> ~both_nan[k] /\ ~both_zero[k] /\ ~old_zero_new_nonzero[k]]
        result4 == assign(result3, normal_case, pct(value, old_value))
    IN  [old_value |-> old_value, value |-> value, normal_case |-> normal_case,
         result |-> result4]

\* compute_nd_change_vectorized: the masks are built first, without ~both_nan,
\* and the four assignments follow in the source's order.
compute_nd_change_vectorized(series, days) ==
    LET n == Len(series)
        old_value == shift(series, days)
        value == series
        both_nan == [k \in 1..n |-> isna(value[k]) \/ isna(old_value[k])]
        both_zero == [k \in 1..n |-> eq0(old_value[k]) /\ eq0(value[k])]
        old_zero_new_nonzero == [k \in 1..n |-> eq0(old_value[k]) /\ ne0(value[k])]
        normal_case ==
            [k \in 1..n |-> ~both_nan[k] /\ ~both_zero[k] /\ ~old_zero_new_nonzero[k]]
        result0 == empty_result(n)
        result1 == assign_scalar(result0, both_nan, NaN)
        result2 == assign_scalar(result1, both_zero, Zero)
        result3 == assign_scalar(result2, old_zero_new_nonzero, One)
        result4 == assign(result3, normal_case, pct(value, old_value))
    IN  [old_value |-> old_value, value |-> value, normal_case |-> normal_case,
         result |-> result4]

compute_1d_change(series) == compute_nd_change_vectorized(series, 1)

compute_7d_change(series) == compute_nd_change_vectorized(series, 7)

compute_30d_change(series) == compute_nd_change_vectorized(series, 30)

\* Mutant of np_shift: np.roll(current_values, n_periods), which wraps around.
np_shift_roll(current_values, n_periods) ==
    [k \in 1..Len(current_values) |->
        IF k > n_periods THEN current_values[k - n_periods]
        ELSE current_values[Len(current_values) - n_periods + k]]

\* old_values = full_like(nan); old_values[n_periods:] = current_values[:-n_periods]
\* (reached only with 1 <= n_periods < len, or n_periods = 0 where the
\* right-hand slice [:-0] is empty and numpy raises; n_periods >= 1 here).
np_shift(current_values, n_periods) ==
    [k \in 1..Len(current_values) |->
        IF k > n_periods THEN current_values[k - n_periods] ELSE NaN]

\* compute_nd_change_numpy: the raw-array implementation, with its two early returns.
compute_nd_change_numpy(vals, n_periods) ==
    LET n == Len(vals)
        none == [k \in 1..n |-> FALSE]
    IN  IF n = 0 THEN
            [old_value |-> <<>>, value |-> <<>>, normal_case |-> <<>>, result |-> <<>>]
        ELSE IF n_periods >= n THEN
            [old_value |-> empty_result(n), value |-> vals, normal_case |-> none,
             result |-> empty_result(n)]
        ELSE
            LET current_values == vals
                old_values == np_shift(current_values, n_periods)
                result0 == empty_result(n)
                both_nan ==
                    [k \in 1..n |-> isna(current_values[k]) \/ isna(old_values[k])]
                both_zero ==
                    [k \in 1..n |->
                        eq0(old_values[k]) /\ eq0(current_values[k]) /\ ~both_nan[k]]
                old_zero_new_nonzero ==
                    [k \in 1..n |->
                        eq0(old_values[k]) /\ ne0(current_values[k]) /\ ~both_nan[k]]
                normal_case ==
                    [k \in 1..n |->
                        /\ ~both_nan[k] /\ ~both_zero[k] /\ ~old_zero_new_nonzero[k]
                        /\ ne0(old_values[k])]
                result1 == assign_scalar(result0, both_nan, NaN)
                result2 == assign_scalar(result1, both_zero, Zero)
                result3 == assign_scalar(result2, old_zero_new_nonzero, One)
                result4 == assign(result3, normal_case, pct(current_values, old_values))
            IN  [old_value |-> old_values, value |-> current_values,
                 normal_case |-> normal_case, result |-> result4]

-----------------------------------------------------------------------------
(* Inputs. *)

\* The element values tried: missing, zero, and three nonzero numbers.
InputValues == {NaN, Rat(0), Rat(1), Rat(2), Rat(-1)}

RECURSIVE SeqsOfLen(_, _)
SeqsOfLen(S, n) ==
    IF n = 0 THEN {<<>>}
    ELSE {Append(s, x) : s \in SeqsOfLen(S, n - 1), x \in S}

SeqsUpTo(S, n) == UNION {SeqsOfLen(S, m) : m \in 0..n}

\* The default RangeIndex of a Series built from a list.
RangeIndex(n) == [k \in 1..n |-> k - 1]

NoCall == [fn |-> "none"]

FetchIdle ==
    /\ start = 0 /\ end = 0 /\ iterate_over_days = 1
    /\ i = 0 /\ requests = <<>> /\ df = <<>> /\ pc = "idle"

-----------------------------------------------------------------------------
(* The positional change functions applied to a Series.  The functions are *)
(* pure and keep nothing between calls, so a behaviour is one call on the  *)
(* inputs drawn by Init.                                                   *)

Init ==
    /\ values \in SeqsUpTo(InputValues, MaxLen)
    /\ index = RangeIndex(Len(values))
    /\ freq = 0
    /\ call = NoCall
    /\ FetchIdle

Call_compute_nd_change ==
    /\ call = NoCall
    /\ \E days \in 1..MaxPeriods :
        call' = [fn |-> "compute_nd_change", periods |-> days,
                 ret |-> compute_nd_change(values, days)]
    /\ UNCHANGED <<seriesVars, fetchVars>>

Call_compute_nd_change_vectorized ==
    /\ call = NoCall
    /\ \E days \in 1..MaxPeriods :
        call' = [fn |-> "compute_nd_change_vectorized", periods |-> days,
                 ret |-> compute_nd_change_vectorized(values, days)]
    /\ UNCHANGED <<seriesVars, fetchVars>>

Call_compute_1d_change ==
    /\ call = NoCall
    /\ call' = [fn |-> "compute_1d_change", periods |-> 1,
                ret |-> compute_1d_change(values)]
    /\ UNCHANGED <<seriesVars, fetchVars>>

Call_compute_7d_change ==
    /\ call = NoCall
    /\ call' = [fn |-> "compute_7d_change", periods |-> 7,
                ret |-> compute_7d_change(values)]
    /\ UNCHANGED <<seriesVars, fetchVars>>

Call_compute_30d_change ==
    /\ call = NoCall
    /\ call' = [fn |-> "compute_30d_change", periods |-> 30,
                ret |-> compute_30d_change(values)]
    /\ UNCHANGED <<seriesVars, fetchVars>>

Call_compute_nd_change_numpy ==
    /\ call = NoCall
    /\ \E n_periods \in 1..MaxPeriods :
        call' = [fn |-> "compute_nd_change_numpy", periods |-> n_periods,
                 ret |-> compute_nd_change_numpy(values, n_periods)]
    /\ UNCHANGED <<seriesVars, fetchVars>>

Next ==
    \/ Call_compute_nd_change
    \/ Call_compute_nd_change_vectorized
    \/ Call_compute_1d_change
    \/ Call_compute_7d_change
    \/ Call_compute_30d_change
    \/ Call_compute_nd_change_numpy

Spec == Init /\ [][Next]_vars

-----------------------------------------------------------------------------
(* The time-aware functions.  idx is the Series' DatetimeIndex (hours),    *)
(* series its values.                                                      *)

Min(S) == CHOOSE x \in S : \A y \in S : x <= y

\* Mutant of window_start: closed='both', the stamp idx[k] - window included.
RECURSIVE window_start_closed_both(_, _, _)
window_start_closed_both(idx, window, k) ==
    IF k = 1 THEN 1
    ELSE LET prev == window_start_closed_both(idx, window, k - 1)
             start_bound == idx[k] - window
             inside == {j \in prev..(k - 1) : idx[j] - start_bound >= 0}
         IN  IF inside = {} THEN k ELSE Min(inside)

\* The first position of the window ending at position k, as pandas' variable
\* window indexer finds it for closed='right' (the default of a time window):
\* the start pointer only advances, to the first j with idx[j] > idx[k] - window.
RECURSIVE window_start(_, _, _)
window_start(idx, window, k) ==
    IF k = 1 THEN 1
    ELSE LET prev == window_start(idx, window, k - 1)
             start_bound == idx[k] - window
             inside == {j \in prev..(k - 1) : idx[j] - start_bound > 0}
         IN  IF inside = {} THEN k ELSE Min(inside)

\* The number of non-NaN observations at positions lo..hi.
RECURSIVE nobs(_, _, _)
nobs(series, lo, hi) ==
    IF lo > hi THEN 0
    ELSE nobs(series, lo, hi - 1) + (IF isna(series[hi]) THEN 0 ELSE 1)

\* The sum of the non-NaN observations at positions lo..hi.
RECURSIVE sum_x(_, _, _)
sum_x(series, lo, hi) ==
    IF lo > hi THEN Zero
    ELSE IF isna(series[hi]) THEN sum_x(series, lo, hi - 1)
    ELSE Add(sum_x(series, lo, hi - 1), series[hi])

\* Mutant of rolling_mean: rolling(window, min_periods).sum().
rolling_sum(idx, series, window, minp) ==
    [k \in 1..Len(series) |->
        LET lo == window_start(idx, window, k)
            cnt == nobs(series, lo, k)
        IN  IF cnt >= minp /\ cnt > 0 THEN sum_x(series, lo, k) ELSE NaN]

\* rolling(window, min_periods).mean(): NaN below min_periods non-NaN observations.
rolling_mean(idx, series, window, minp) ==
    [k \in 1..Len(series) |->
        LET lo == window_start(idx, window, k)
            cnt == nobs(series, lo, k)
        IN  IF cnt >= minp /\ cnt > 0
            THEN Div(sum_x(series, lo, k), Rat(cnt)) ELSE NaN]

\* compute_moving_average; min_periods is <<>> for None, else <<m>>.
compute_moving_average(idx, series, hours, min_periods) ==
    LET minp == IF min_periods = <<>> THEN 1 ELSE min_periods[1]
        window == hours
    IN  rolling_mean(idx, series, window, minp)

\* ma.shift(freq=time_shift) brought back on ma's index, as the masks and the
\* division align it: the value stamped idx[k] is the one observed at exactly
\* idx[k] - time_shift, and there is none when no observation has that stamp.
shifted_position(idx, time_shift, k) ==
    LET at == {j \in 1..Len(idx) : idx[j] + time_shift = idx[k]}
    IN  IF at = {} THEN 0 ELSE CHOOSE j \in at : TRUE

\* compute_moving_average_change.  fr is index.freq in hours, 0 for None.
\* has_old[k] says that old_ma holds an entry for idx[k]; the positional
\* shift always does (NaN where vacated).  An operand missing from one side of
\* & or | counts as False once the masks are aligned, and a missing divisor
\* as NaN.
compute_moving_average_change(idx, fr, series, hours, change_period_hours) ==
    LET n == Len(series)
        ma == compute_moving_average(idx, series, hours, <<>>)
        periods == IF fr # 0 THEN change_period_hours \div fr ELSE 0
        time_shift == change_period_hours
        has_old ==
            [k \in 1..n |-> IF fr # 0 THEN TRUE
                            ELSE shifted_position(idx, time_shift, k) # 0]
        old_ma ==
            IF fr # 0 THEN shift(ma, periods)
            ELSE [k \in 1..n |->
                    IF has_old[k] THEN ma[shifted_position(idx, time_shift, k)]
                    ELSE NaN]
        both_nan == [k \in 1..n |-> isna(ma[k]) \/ (has_old[k] /\ isna(old_ma[k]))]
        both_zero == [k \in 1..n |-> has_old[k] /\ eq0(old_ma[k]) /\ eq0(ma[k])]
        old_zero_new_nonzero ==
            [k \in 1..n |-> has_old[k] /\ eq0(old_ma[k]) /\ ne0(ma[k])]
        normal_case ==
            [k \in 1..n |-> ~both_nan[k] /\ ~both_zero[k] /\ ~old_zero_new_nonzero[k]]
        result0 == empty_result(n)
        result1 == assign_scalar(result0, both_nan, NaN)
        result2 == assign_scalar(result1, both_zero, Zero)
        result3 == assign_scalar(result2, old_zero_new_nonzero, One)
        result4 == assign(result3, normal_case, pct(ma, old_ma))
    IN  [ma |-> ma, old_value |-> old_ma, value |-> ma, has_old |-> has_old,
         normal_case |-> normal_case, result |-> result4]

-----------------------------------------------------------------------------
(* The time-aware functions applied to a timestamped Series, together with *)
(* the positional ones, which read the values and ignore the index.        *)

\* The element values of the timestamped Series: missing, zero, two nonzero.
ObservedValues == {NaN, Rat(0), Rat(1), Rat(3)}

\* Strictly increasing timestamps.
IsIncreasing(idx) == \A k \in 1..(Len(idx) - 1) : idx[k] < idx[k + 1]

\* A DatetimeIndex carries freq = f only if its stamps are f apart.
IsRegular(idx, f) == \A k \in 1..(Len(idx) - 1) : idx[k + 1] - idx[k] = f

OptionalMinPeriods == {<<>>} \cup {<<m>> : m \in 1..MaxMinPeriods}

InitMA ==
    /\ index \in {idx \in SeqsUpTo(0..MaxTime, MaxObs) : IsIncreasing(idx)}
    /\ values \in SeqsOfLen(ObservedValues, Len(index))
    /\ freq \in {0} \cup {f \in 1..MaxTime : IsRegular(index, f)}
    /\ call = NoCall
    /\ FetchIdle

Call_compute_moving_average ==
    /\ call = NoCall
    /\ \E hours \in 1..MaxHours, min_periods \in OptionalMinPeriods :
        call' = [fn |-> "compute_moving_average", hours |-> hours,
                 min_periods |-> min_periods,
                 ret |-> [result |->
                    compute_moving_average(index, values, hours, min_periods)]]
    /\ UNCHANGED <<seriesVars, fetchVars>>

Call_compute_moving_average_change ==
    /\ call = NoCall
    /\ \E hours \in 1..MaxHours, change_period_hours \in 0..MaxChange :
        call' = [fn |-> "compute_moving_average_change", hours |-> hours,
                 change_period_hours |-> change_period_hours,
                 ret |-> compute_moving_average_change(
                            index, freq, values, hours, change_period_hours)]
    /\ UNCHANGED <<seriesVars, fetchVars>>

NextMA ==
    \/ Call_compute_moving_average
    \/ Call_compute_moving_average_change
    \/ Call_compute_nd_change
    \/ Call_compute_nd_change_vectorized
    \/ Call_compute_nd_change_numpy

SpecMA == InitMA /\ [][NextMA]_vars

-----------------------------------------------------------------------------
(* get_san_metric.  A date is its day number: strptime(...).date(), date +  *)
(* timedelta(days) and str(date) are day arithmetic and an order-preserving *)
(* rendering of it.                                                         *)

\* int(np.ceil(a / n)) for n > 0, also for a negative a.
ceil_div(a, n) == -((-a) \div n)

\* The number of loop iterations: range(int(np.ceil((end - start).days / iterate_over_days))).
n_iterations(s, e, n) == ceil_div(e - s, n)

\* start + timedelta(days=iterate_over_days * i)
start_date(s, n, k) == s + n * k

\* min(end, start + timedelta(days=iterate_over_days * (i + 1) - 1))
end_date(s, e, n, k) ==
    LET last == s + (n * (k + 1) - 1) IN IF e < last THEN e ELSE last

\* san.get(..., from_date, to_date, interval): the service answers with the rows
\* of the dates from_date..to_date, in date order (none when from_date > to_date).
san_get(from_date, to_date) ==
    [k \in 1..(IF to_date >= from_date THEN to_date - from_date + 1 ELSE 0) |->
        from_date + k - 1]

SeriesIdle == index = <<>> /\ values = <<>> /\ freq = 0 /\ call = NoCall

InitFetch ==
    /\ SeriesIdle
    /\ FetchIdle

\* The call: the arguments are parsed and df starts empty.
Call_get_san_metric ==
    /\ pc \in {"idle", "done"}
    /\ \E s \in 0..MaxDate, e \in 0..MaxDate, n \in 1..MaxChunk :
        /\ start' = s
        /\ end' = e
        /\ iterate_over_days' = n
    /\ i' = 0
    /\ requests' = <<>>
    /\ df' = <<>>
    /\ pc' = "loop"
    /\ UNCHANGED <<seriesVars, call>>

\* One iteration of the for loop: a request and df.append(df_batch).
Request ==
    /\ pc = "loop"
    /\ i < n_iterations(start, end, iterate_over_days)
    /\ LET from_date == start_date(start, iterate_over_days, i)
           to_date == end_date(start, end, iterate_over_days, i)
       IN  /\ requests' = Append(requests, [from_date |-> from_date, to_date |-> to_date])
           /\ df' = df \o san_get(from_date, to_date)
    /\ i' = i + 1
    /\ UNCHANGED <<seriesVars, call, start, end, iterate_over_days, pc>>

\* The range is exhausted: return df.
Return ==
    /\ pc = "loop"
    /\ ~(i < n_iterations(start, end, iterate_over_days))
    /\ pc' = "done"
    /\ UNCHANGED <<seriesVars, call, start, end, iterate_over_days, i, requests, df>>

NextFetch ==
    \/ Call_get_san_metric
    \/ Request
    \/ Return

SpecFetch == InitFetch /\ [][NextFetch]_vars

-----------------------------------------------------------------------------
(* The combination policy as the specification states it: the first       *)
(* matching rule wins.                                                     *)

Policy(old, new) ==
    IF old = NaN \/ new = NaN THEN NaN
    ELSE IF old = Zero /\ new = Zero THEN Zero
    ELSE IF old = Zero THEN One
    ELSE Sub1(Div(new, old))

\* series[k - periods], missing before the first position.
LookBack(series, periods, k) ==
    IF k - periods >= 1 THEN series[k - periods] ELSE NaN

-----------------------------------------------------------------------------
(* Claims about the positional change functions (Spec). *)

\* C1: compute_nd_change and compute_nd_change_numpy give, at every position,
\* the policy's value for (series[k - periods], series[k]): missing if either
\* is missing, 0 for 0 -> 0, 1 for 0 -> nonzero, (new / old) - 1 otherwise.
C1_PolicyTable ==
    call.fn \in {"compute_nd_change", "compute_nd_change_numpy"} =>
        /\ Len(call.ret.result) = Len(values)
        /\ \A k \in 1..Len(values) :
            call.ret.result[k] = Policy(LookBack(values, call.periods, k), values[k])

\* A call of the raw-array function that meets rules 1, 3 and 4.
C1_Witness ==
    /\ call.fn = "compute_nd_change_numpy"
    /\ call.periods = 1
    /\ values = <<Rat(0), Rat(2), Rat(1)>>
    /\ call.ret.result = <<NaN, One, <<-1, 2>> >>

\* C2: in compute_nd_change_vectorized, its wrappers and the policy step of
\* compute_moving_average_change, a position whose current or look-back value
\* is missing has a missing output (never 1 for look-back 0, current missing).
C2_MissingPropagates ==
    call.fn \in {"compute_nd_change_vectorized", "compute_1d_change",
                 "compute_7d_change", "compute_30d_change",
                 "compute_moving_average_change"} =>
        \A k \in 1..Len(call.ret.result) :
            (isna(call.ret.value[k]) \/ isna(call.ret.old_value[k]))
                => call.ret.result[k] = NaN

\* C3: compute_nd_change and compute_nd_change_vectorized give identical
\* outputs for the same series and period count.
C3_MaskedEqualsVectorized ==
    call.fn = "compute_nd_change_vectorized" =>
        call.ret.result = compute_nd_change(values, call.periods).result

\* C4: compute_nd_change, compute_nd_change_vectorized and
\* compute_nd_change_numpy return as many positions as the input has, with
\* every position before periods missing (so all of them when periods >= length,
\* and none at all for the empty series).
C4_LengthAndLeadingMissing ==
    call.fn \in {"compute_nd_change", "compute_nd_change_vectorized",
                 "compute_nd_change_numpy"} =>
        /\ Len(call.ret.result) = Len(values)
        /\ \A k \in 1..Len(call.ret.result) :
            k <= call.periods => call.ret.result[k] = NaN

\* The vectorized function on a series of zeros no longer than the look-back.
C4_Witness ==
    /\ call.fn = "compute_nd_change_vectorized"
    /\ Len(values) >= 2
    /\ call.periods >= Len(values)
    /\ \A k \in 1..Len(values) : values[k] = Zero
    /\ \A k \in 1..Len(values) : call.ret.result[k] = NaN

-----------------------------------------------------------------------------
(* Claims about the time-aware functions (SpecMA). *)

Max(S) == CHOOSE x \in S : \A y \in S : x >= y

\* The positions of the non-missing observations stamped in (t - hours, t],
\* t the stamp of position k.
InWindow(idx, series, hours, k) ==
    {j \in 1..Len(idx) :
        idx[k] - hours < idx[j] /\ idx[j] <= idx[k] /\ series[j] # NaN}

RECURSIVE SumOver(_, _)
SumOver(series, S) ==
    IF S = {} THEN Zero
    ELSE LET j == CHOOSE x \in S : TRUE
         IN  Add(series[j], SumOver(series, S \ {j}))

Mean(series, S) == Div(SumOver(series, S), Rat(Cardinality(S)))

\* C5: compute_moving_average gives at each position the arithmetic mean of the
\* non-missing values stamped in (t - windowSpan, t], and missing when fewer
\* than minPeriods (default 1) of them lie there, whatever the spacing of the
\* timestamps.
C5_TrailingMean ==
    call.fn = "compute_moving_average" =>
        LET minp == IF call.min_periods = <<>> THEN 1 ELSE call.min_periods[1]
        IN  /\ Len(call.ret.result) = Len(values)
            /\ \A k \in 1..Len(values) :
                LET W == InWindow(index, values, call.hours, k)
                IN  call.ret.result[k] =
                        IF Cardinality(W) < minp THEN NaN ELSE Mean(values, W)

\* An irregular series where min_periods = 2 leaves two positions missing and
\* the third is the mean of two observations.
C5_Witness ==
    /\ call.fn = "compute_moving_average"
    /\ index = <<0, 1, 3>>
    /\ values = <<Rat(1), Rat(3), NaN>>
    /\ call.hours = 2
    /\ call.min_periods = <<2>>
    /\ call.ret.result = <<NaN, Rat(2), NaN>>

\* C6: no look-ahead.  The output of compute_nd_change, compute_nd_change_numpy
\* and compute_moving_average at a position is the output the function gives
\* there on the series cut after any later-or-equal position m; two series that
\* agree up to a position share that cut, so they share the output.
C6_NoLookAhead ==
    \A m \in 0..Len(values) :
        LET cut == SubSeq(values, 1, m)
            cut_index == SubSeq(index, 1, m)
        IN  \A k \in 1..m :
            /\ call.fn = "compute_nd_change" =>
                compute_nd_change(cut, call.periods).result[k] = call.ret.result[k]
            /\ call.fn = "compute_nd_change_numpy" =>
                compute_nd_change_numpy(cut, call.periods).result[k]
                    = call.ret.result[k]
            /\ call.fn = "compute_moving_average" =>
                compute_moving_average(cut_index, cut, call.hours, call.min_periods)[k]
                    = call.ret.result[k]

\* A change over one period on a series whose outputs before the last position
\* are not all missing and whose last observation is a number.
C6_Witness ==
    /\ call.fn = "compute_nd_change"
    /\ call.periods = 1
    /\ Len(values) = MaxObs
    /\ values[Len(values)] # NaN
    /\ call.ret.result[2] # NaN

\* Every value of the series is the same number.
IsConstant(series) ==
    \E v \in ObservedValues \ {NaN} : \A k \in 1..Len(series) : series[k] = v

\* The moving average has an entry to look back to from position k: periods
\* positions earlier under a fixed frequency, an observation stamped exactly
\* change_period_hours earlier without one.
HasLookBack(k, change_period_hours) ==
    IF freq # 0 THEN k - (change_period_hours \div freq) >= 1
    ELSE \E j \in 1..Len(index) : index[j] = index[k] - change_period_hours

IsIrregular(idx) ==
    \E j, k \in 1..(Len(idx) - 1) : idx[j + 1] - idx[j] # idx[k + 1] - idx[k]

\* The moving-average value at the nearest stamp at or before t, missing if none.
AsOf(idx, ma, t) ==
    LET S == {j \in 1..Len(idx) : idx[j] <= t}
    IN  IF S = {} THEN NaN ELSE ma[Max(S)]

\* C8: on an irregular series compute_moving_average_change returns one output
\* per input timestamp, and the output at t is the policy applied to
\* (old, ma[t]), old the moving average at the nearest stamp at or before
\* t - changeWindowSpan.
C8_AsOfLookBack ==
    (call.fn = "compute_moving_average_change" /\ freq = 0 /\ IsIrregular(index)) =>
        /\ Len(call.ret.result) = Len(values)
        /\ \A k \in 1..Len(values) :
            call.ret.result[k] =
                Policy(AsOf(index, call.ret.ma, index[k] - call.change_period_hours),
                       call.ret.ma[k])

\* C10: in compute_nd_change, compute_nd_change_vectorized,
\* compute_nd_change_numpy and compute_moving_average_change every position
\* selected by normal_case has a non-missing, nonzero look-back value and a
\* non-missing current value.
C10_DivisionBranchGuarded ==
    call.fn \in {"compute_nd_change", "compute_nd_change_vectorized",
                 "compute_nd_change_numpy", "compute_moving_average_change"} =>
        \A k \in 1..Len(call.ret.normal_case) :
            call.ret.normal_case[k] =>
                /\ ~isna(call.ret.old_value[k])
                /\ ~eq0(call.ret.old_value[k])
                /\ ~isna(call.ret.value[k])

-----------------------------------------------------------------------------
(* Claims about get_san_metric (SpecFetch). *)

RECURSIVE ConcatBatches(_)
ConcatBatches(reqs) ==
    IF reqs = <<>> THEN <<>>
    ELSE ConcatBatches(SubSeq(reqs, 1, Len(reqs) - 1))
            \o san_get(reqs[Len(reqs)].from_date, reqs[Len(reqs)].to_date)

\* C9: for start <= end, get_san_metric issues one or more requests in
\* increasing date order, each at most iterate_over_days days long, the first
\* beginning at start, each next one beginning the day after the previous one
\* ended, the last ending at end; the frame returned is the batches concatenated
\* in that order.
C9_ChunksCoverRange ==
    (pc = "done" /\ start <= end) =>
        /\ Len(requests) >= 1
        /\ requests[1].from_date = start
        /\ requests[Len(requests)].to_date = end
        /\ \A k \in 1..Len(requests) :
            /\ requests[k].from_date <= requests[k].to_date
            /\ requests[k].to_date - requests[k].from_date + 1 <= iterate_over_days
        /\ \A k \in 1..(Len(requests) - 1) :
            requests[k + 1].from_date = requests[k].to_date + 1
        /\ df = ConcatBatches(requests)

=============================================================================
